---- MODULE Spec2Model ----
(***************************************************************************)
(* The MessagePack packing routine template of salt/msgpack                *)
(* (pack_template.h, sysdep.h) as a state machine.                         *)
(*                                                                         *)
(* An integer object of n bytes is the sequence of its n bytes, most       *)
(* significant first (its two's-complement bit pattern): 64-bit values do  *)
(* not fit the model checker's integers.  How the object lies in memory    *)
(* depends on the host's byte order and is modelled by Mem.                *)
(***************************************************************************)
EXTENDS Integers, Sequences, FiniteSets, TLC

VARIABLES host, target, macros, todo, sink, hist, last

vars == <<host, target, macros, todo, sink, hist, last>>

\* Half-width of the neighbourhood of every threshold that is drawn as input.
Radius == 1
\* Longest raw body that is drawn as input.
MaxBody == 2
\* Number of encode calls of one stream.
MaxCalls == 2

(***************************************************************************)
(* Bytes and multi-byte integers                                           *)
(***************************************************************************)
Rev(s) == [i \in 1..Len(s) |-> s[Len(s) + 1 - i]]

Fill(k, b) == [i \in 1..k |-> b]

\* Conversion to an unsigned type of k bytes that is not wider: the low k bytes.
Low(d, k) == SubSeq(d, Len(d) - k + 1, Len(d))

\* Conversion to a type of k bytes that is not narrower: zero or sign extension.
Widen(d, signed, k) ==
  Fill(k - Len(d), IF signed /\ Len(d) > 0 /\ d[1] >= 128 THEN 255 ELSE 0) \o d

\* C integer conversion of a value of d's type to an integer type of k bytes.
Conv(d, signed, k) == IF Len(d) >= k THEN Low(d, k) ELSE Widen(d, signed, k)

\* The mathematical value of a C integer, as 9 bytes of two's complement: every
\* int64_t and every uint64_t value fits.
Val(d, signed) == Widen(d, signed, 9)

RECURSIVE BitAnd(_, _)
BitAnd(a, b) ==
  IF a = 0 \/ b = 0 THEN 0
  ELSE (a % 2) * (b % 2) + 2 * BitAnd(a \div 2, b \div 2)

RECURSIVE BitOr(_, _)
BitOr(a, b) ==
  IF a = 0 THEN b
  ELSE IF b = 0 THEN a
  ELSE (IF a % 2 = 1 \/ b % 2 = 1 THEN 1 ELSE 0) + 2 * BitOr(a \div 2, b \div 2)

And(a, b) == [i \in 1..Len(a) |-> BitAnd(a[i], b[i])]

Or(a, b) == [i \in 1..Len(a) |-> BitOr(a[i], b[i])]

\* x << bits and x >> bits, for bits a multiple of 8, in x's own width.
Shl(x, bits) == SubSeq(x, bits \div 8 + 1, Len(x)) \o Fill(bits \div 8, 0)

Shr(x, bits) == Fill(bits \div 8, 0) \o SubSeq(x, 1, Len(x) - bits \div 8)

RECURSIVE AddC(_, _, _)
AddC(a, b, c) ==
  IF a = <<>> THEN <<>>
  ELSE LET n == Len(a)
           s == a[n] + b[n] + c
       IN  Append(AddC(SubSeq(a, 1, n - 1), SubSeq(b, 1, n - 1), s \div 256), s % 256)

\* a + b in the width of a.
Add(a, b) == AddC(a, b, 0)

\* -a in the width of a.
Neg(a) == AddC([i \in 1..Len(a) |-> 255 - a[i]], Fill(Len(a), 0), 1)

\* The constant n, 0 <= n < 2^31, as a mathematical value.
Nat9(n) == [i \in 1..9 |-> IF i <= 5 THEN 0 ELSE (n \div (256 ^ (9 - i))) % 256]

Int9(j) == IF j >= 0 THEN Nat9(j) ELSE Neg(Nat9(0 - j))

\* The constant 1 << k (1LL << k, 1ULL << k), k <= 64, as a mathematical value.
Shl1(k) == [i \in 1..9 |-> IF 9 - i = k \div 8 THEN 2 ^ (k % 8) ELSE 0]

RECURSIVE LexLess(_, _)
LexLess(a, b) ==
  IF a = <<>> THEN FALSE
  ELSE IF a[1] # b[1] THEN a[1] < b[1]
  ELSE LexLess(Tail(a), Tail(b))

\* a < b for mathematical values.
Lt(a, b) ==
  LexLess(<<(a[1] + 128) % 256>> \o Tail(a), <<(b[1] + 128) % 256>> \o Tail(b))

\* The C comparison d < c of an unsigned, resp. signed, object with a constant.
\* Every constant of the template is representable in the type the usual
\* arithmetic conversions pick (int is at least 32 bits wide), so the
\* comparison is the comparison of the mathematical values.
ULt(d, c) == Lt(Val(d, FALSE), c)

SLt(d, c) == Lt(Val(d, TRUE), c)

(***************************************************************************)
(* sysdep.h: byte order                                                    *)
(***************************************************************************)
Hosts == {"little", "big"}

\* The bytes of an object in memory, lowest address first.
Mem(h, d) == IF h = "little" THEN Rev(d) ELSE d

\* *(uintN_t*)&buf[1] = v, for N = 8k: the k bytes written, lowest address first.
Store(h, v, k) == Mem(h, Conv(v, FALSE, k))

ntohs(x) == Rev(Low(x, 2))

ntohl(x) == Rev(Low(x, 4))

_msgpack_be16(h, x) == IF h = "little" THEN ntohs(x) ELSE x

_msgpack_be32(h, x) == IF h = "little" THEN ntohl(x) ELSE x

Mask64(i) == [j \in 1..8 |-> IF j = i THEN 255 ELSE 0]

_msgpack_be64(h, x) ==
  IF h = "little"
  THEN LET u == Conv(x, FALSE, 8)
       IN  Or(And(Shl(u, 56), Mask64(1)),
           Or(And(Shl(u, 40), Mask64(2)),
           Or(And(Shl(u, 24), Mask64(3)),
           Or(And(Shl(u, 8), Mask64(4)),
           Or(And(Shr(u, 8), Mask64(5)),
           Or(And(Shr(u, 24), Mask64(6)),
           Or(And(Shr(u, 40), Mask64(7)),
              And(Shr(u, 56), Mask64(8)))))))))
  ELSE x

(***************************************************************************)
(* pack_template.h: single-byte selection                                  *)
(***************************************************************************)
TAKE8_8(h, d) == Mem(h, d)[1]

TAKE8_16(h, d) == Mem(h, d)[IF h = "little" THEN 1 ELSE 2]

TAKE8_32(h, d) == Mem(h, d)[IF h = "little" THEN 1 ELSE 4]

TAKE8_64(h, d) == Mem(h, d)[IF h = "little" THEN 1 ELSE 8]

(***************************************************************************)
(* pack_template.h: the integer macros.  Each yields the sequence of       *)
(* msgpack_pack_append_buffer calls it makes, a call being the bytes it    *)
(* passes.                                                                 *)
(***************************************************************************)
msgpack_pack_real_uint8(h, d) ==
  IF ULt(d, Shl1(7))
  THEN << <<TAKE8_8(h, d)>> >>
  ELSE << <<204, TAKE8_8(h, d)>> >>

\* msgpack_pack_real_uint16 with the 8-bit test written d <= (1<<8).
Faulty_real_uint16_le(h, d) ==
  IF ULt(d, Shl1(7))
  THEN << <<TAKE8_16(h, d)>> >>
  ELSE IF ULt(d, Add(Shl1(8), Nat9(1)))
  THEN << <<204, TAKE8_16(h, d)>> >>
  ELSE << <<205>> \o Store(h, _msgpack_be16(h, d), 2) >>

msgpack_pack_real_uint16(h, d) ==
  IF ULt(d, Shl1(7))
  THEN << <<TAKE8_16(h, d)>> >>
  ELSE IF ULt(d, Shl1(8))
  THEN << <<204, TAKE8_16(h, d)>> >>
  ELSE << <<205>> \o Store(h, _msgpack_be16(h, d), 2) >>

msgpack_pack_real_uint32(h, d) ==
  IF ULt(d, Shl1(8))
  THEN IF ULt(d, Shl1(7))
       THEN << <<TAKE8_32(h, d)>> >>
       ELSE << <<204, TAKE8_32(h, d)>> >>
  ELSE IF ULt(d, Shl1(16))
       THEN << <<205>> \o Store(h, _msgpack_be16(h, d), 2) >>
       ELSE << <<206>> \o Store(h, _msgpack_be32(h, d), 4) >>

msgpack_pack_real_uint64(h, d) ==
  IF ULt(d, Shl1(8))
  THEN IF ULt(d, Shl1(7))
       THEN << <<TAKE8_64(h, d)>> >>
       ELSE << <<204, TAKE8_64(h, d)>> >>
  ELSE IF ULt(d, Shl1(16))
       THEN << <<205>> \o Store(h, _msgpack_be16(h, d), 2) >>
       ELSE IF ULt(d, Shl1(32))
       THEN << <<206>> \o Store(h, _msgpack_be32(h, d), 4) >>
       ELSE << <<207>> \o Store(h, _msgpack_be64(h, d), 8) >>

msgpack_pack_real_int8(h, d) ==
  IF SLt(d, Neg(Shl1(5)))
  THEN << <<208, TAKE8_8(h, d)>> >>
  ELSE << <<TAKE8_8(h, d)>> >>

\* msgpack_pack_real_int16 with the signed 8-bit test written d < -(1<<8).
Faulty_real_int16_shift(h, d) ==
  IF SLt(d, Neg(Shl1(5)))
  THEN IF SLt(d, Neg(Shl1(8)))
       THEN << <<209>> \o Store(h, _msgpack_be16(h, d), 2) >>
       ELSE << <<208, TAKE8_16(h, d)>> >>
  ELSE IF SLt(d, Shl1(7))
  THEN << <<TAKE8_16(h, d)>> >>
  ELSE IF SLt(d, Shl1(8))
       THEN << <<204, TAKE8_16(h, d)>> >>
       ELSE << <<205>> \o Store(h, _msgpack_be16(h, d), 2) >>

msgpack_pack_real_int16(h, d) ==
  IF SLt(d, Neg(Shl1(5)))
  THEN IF SLt(d, Neg(Shl1(7)))
       THEN << <<209>> \o Store(h, _msgpack_be16(h, d), 2) >>
       ELSE << <<208, TAKE8_16(h, d)>> >>
  ELSE IF SLt(d, Shl1(7))
  THEN << <<TAKE8_16(h, d)>> >>
  ELSE IF SLt(d, Shl1(8))
       THEN << <<204, TAKE8_16(h, d)>> >>
       ELSE << <<205>> \o Store(h, _msgpack_be16(h, d), 2) >>

\* msgpack_pack_real_int32 with the signed 32-bit tag on the values from 2^16 on.
Faulty_real_int32_signed_tag(h, d) ==
  IF SLt(d, Neg(Shl1(5)))
  THEN IF SLt(d, Neg(Shl1(15)))
       THEN << <<210>> \o Store(h, _msgpack_be32(h, d), 4) >>
       ELSE IF SLt(d, Neg(Shl1(7)))
       THEN << <<209>> \o Store(h, _msgpack_be16(h, d), 2) >>
       ELSE << <<208, TAKE8_32(h, d)>> >>
  ELSE IF SLt(d, Shl1(7))
  THEN << <<TAKE8_32(h, d)>> >>
  ELSE IF SLt(d, Shl1(8))
       THEN << <<204, TAKE8_32(h, d)>> >>
       ELSE IF SLt(d, Shl1(16))
       THEN << <<205>> \o Store(h, _msgpack_be16(h, d), 2) >>
       ELSE << <<210>> \o Store(h, _msgpack_be32(h, d), 4) >>

msgpack_pack_real_int32(h, d) ==
  IF SLt(d, Neg(Shl1(5)))
  THEN IF SLt(d, Neg(Shl1(15)))
       THEN << <<210>> \o Store(h, _msgpack_be32(h, d), 4) >>
       ELSE IF SLt(d, Neg(Shl1(7)))
       THEN << <<209>> \o Store(h, _msgpack_be16(h, d), 2) >>
       ELSE << <<208, TAKE8_32(h, d)>> >>
  ELSE IF SLt(d, Shl1(7))
  THEN << <<TAKE8_32(h, d)>> >>
  ELSE IF SLt(d, Shl1(8))
       THEN << <<204, TAKE8_32(h, d)>> >>
       ELSE IF SLt(d, Shl1(16))
       THEN << <<205>> \o Store(h, _msgpack_be16(h, d), 2) >>
       ELSE << <<206>> \o Store(h, _msgpack_be32(h, d), 4) >>

msgpack_pack_real_int64(h, d) ==
  IF SLt(d, Neg(Shl1(5)))
  THEN IF SLt(d, Neg(Shl1(15)))
       THEN IF SLt(d, Neg(Shl1(31)))
            THEN << <<211>> \o Store(h, _msgpack_be64(h, d), 8) >>
            ELSE << <<210>> \o Store(h, _msgpack_be32(h, d), 4) >>
       ELSE IF SLt(d, Neg(Shl1(7)))
            THEN << <<209>> \o Store(h, _msgpack_be16(h, d), 2) >>
            ELSE << <<208, TAKE8_64(h, d)>> >>
  ELSE IF SLt(d, Shl1(7))
  THEN << <<TAKE8_64(h, d)>> >>
  ELSE IF SLt(d, Shl1(16))
       THEN IF SLt(d, Shl1(8))
            THEN << <<204, TAKE8_64(h, d)>> >>
            ELSE << <<205>> \o Store(h, _msgpack_be16(h, d), 2) >>
       ELSE IF SLt(d, Shl1(32))
            THEN << <<206>> \o Store(h, _msgpack_be32(h, d), 4) >>
            ELSE << <<207>> \o Store(h, _msgpack_be64(h, d), 8) >>

(***************************************************************************)
(* pack_template.h: the fixed-width operations                             *)
(***************************************************************************)
(***************************************************************************)
(* pack_template.h: the fixed-width family, compiled when the including    *)
(* file defines msgpack_pack_inline_func_fastint.                          *)
(***************************************************************************)
msgpack_pack_fastint_uint8(h, d) == << <<204, TAKE8_8(h, d)>> >>

msgpack_pack_fastint_uint16(h, d) == << <<205>> \o Store(h, _msgpack_be16(h, d), 2) >>

msgpack_pack_fastint_uint32(h, d) == << <<206>> \o Store(h, _msgpack_be32(h, d), 4) >>

msgpack_pack_fastint_uint64(h, d) == << <<207>> \o Store(h, _msgpack_be64(h, d), 8) >>

msgpack_pack_fastint_int8(h, d) == << <<208, TAKE8_8(h, d)>> >>

\* msgpack_pack_fastint_int16 handing its argument to the minimal int16 macro.
Faulty_fastint_int16_minimal(h, d) == msgpack_pack_real_int16(h, d)

msgpack_pack_fastint_int16(h, d) == << <<209>> \o Store(h, _msgpack_be16(h, d), 2) >>

msgpack_pack_fastint_int32(h, d) == << <<210>> \o Store(h, _msgpack_be32(h, d), 4) >>

msgpack_pack_fastint_int64(h, d) == << <<211>> \o Store(h, _msgpack_be64(h, d), 8) >>

msgpack_pack_uint8(h, d) == msgpack_pack_real_uint8(h, d)

msgpack_pack_uint16(h, d) == msgpack_pack_real_uint16(h, d)

msgpack_pack_uint32(h, d) == msgpack_pack_real_uint32(h, d)

msgpack_pack_uint64(h, d) == msgpack_pack_real_uint64(h, d)

msgpack_pack_int8(h, d) == msgpack_pack_real_int8(h, d)

msgpack_pack_int16(h, d) == msgpack_pack_real_int16(h, d)

msgpack_pack_int32(h, d) == msgpack_pack_real_int32(h, d)

msgpack_pack_int64(h, d) == msgpack_pack_real_int64(h, d)

(***************************************************************************)
(* The build target: the size in bytes of short, int, long, long long and  *)
(* size_t (sysdep.h takes uint32_t and ntohl from the platform, whose int  *)
(* is at least 32 bits wide), and which of the width macros the including  *)
(* file has in scope: the SIZEOF_* ones, the <limits.h> *_MAX ones, or     *)
(* none.                                                                   *)
(***************************************************************************)
Targets ==
  { [name |-> "ILP32", short |-> 2, int |-> 4, long |-> 4, llong |-> 8, size |-> 4],
    [name |-> "LP64", short |-> 2, int |-> 4, long |-> 8, llong |-> 8, size |-> 8],
    [name |-> "ILP64", short |-> 2, int |-> 8, long |-> 8, llong |-> 8, size |-> 8],
    [name |-> "SILP64", short |-> 8, int |-> 8, long |-> 8, llong |-> 8, size |-> 8],
    [name |-> "S32ILP64", short |-> 4, int |-> 8, long |-> 8, llong |-> 8, size |-> 8] }

MacroModes == {"sizeof", "limits", "none"}

\* The largest value of a signed, resp. unsigned, type of w bytes (<limits.h>).
SMax(w) == Add(Shl1(8 * w - 1), Int9(0 - 1))

UMax(w) == Add(Shl1(8 * w), Int9(0 - 1))

\* In #if an identifier that is no macro is 0.
SizeofMacro(m, w) == IF m = "sizeof" THEN w ELSE 0

MaxMacro(m, v) == IF m = "limits" THEN v ELSE Nat9(0)

Hex7fff == <<0, 0, 0, 0, 0, 0, 0, 127, 255>>

Hex7fffffff == <<0, 0, 0, 0, 0, 127, 255, 255, 255>>

Hexffff == <<0, 0, 0, 0, 0, 0, 0, 255, 255>>

Hexffffffff == <<0, 0, 0, 0, 0, 255, 255, 255, 255>>

(***************************************************************************)
(* pack_template.h: the native-type operations                             *)
(***************************************************************************)
msgpack_pack_short(h, t, m, d) ==
  LET SIZEOF_SHORT == SizeofMacro(m, t.short)
      SHRT_MAX == MaxMacro(m, SMax(t.short))
  IN  IF m # "none"
      THEN IF SIZEOF_SHORT = 2 \/ SHRT_MAX = Hex7fff
           THEN msgpack_pack_real_int16(h, d)
           ELSE IF SIZEOF_SHORT = 4 \/ SHRT_MAX = Hex7fffffff
           THEN msgpack_pack_real_int32(h, d)
           ELSE msgpack_pack_real_int64(h, d)
      ELSE IF t.short = 2
           THEN msgpack_pack_real_int16(h, d)
           ELSE IF t.short = 4
           THEN msgpack_pack_real_int32(h, d)
           ELSE msgpack_pack_real_int64(h, d)

msgpack_pack_int(h, t, m, d) ==
  LET SIZEOF_INT == SizeofMacro(m, t.int)
      INT_MAX == MaxMacro(m, SMax(t.int))
  IN  IF m # "none"
      THEN IF SIZEOF_INT = 2 \/ INT_MAX = Hex7fff
           THEN msgpack_pack_real_int16(h, d)
           ELSE IF SIZEOF_INT = 4 \/ INT_MAX = Hex7fffffff
           THEN msgpack_pack_real_int32(h, d)
           ELSE msgpack_pack_real_int64(h, d)
      ELSE IF t.int = 2
           THEN msgpack_pack_real_int16(h, d)
           ELSE IF t.int = 4
           THEN msgpack_pack_real_int32(h, d)
           ELSE msgpack_pack_real_int64(h, d)

msgpack_pack_long(h, t, m, d) ==
  LET SIZEOF_LONG == SizeofMacro(m, t.long)
      LONG_MAX == MaxMacro(m, SMax(t.long))
  IN  IF m # "none"
      THEN IF SIZEOF_LONG = 2 \/ LONG_MAX = Hex7fff
           THEN msgpack_pack_real_int16(h, d)
           ELSE IF SIZEOF_LONG = 4 \/ LONG_MAX = Hex7fffffff
           THEN msgpack_pack_real_int32(h, d)
           ELSE msgpack_pack_real_int64(h, d)
      ELSE IF t.long = 2
           THEN msgpack_pack_real_int16(h, d)
           ELSE IF t.long = 4
           THEN msgpack_pack_real_int32(h, d)
           ELSE msgpack_pack_real_int64(h, d)

msgpack_pack_long_long(h, t, m, d) ==
  LET SIZEOF_LONG_LONG == SizeofMacro(m, t.llong)
      LLONG_MAX == MaxMacro(m, SMax(t.llong))
  IN  IF m # "none"
      THEN IF SIZEOF_LONG_LONG = 2 \/ LLONG_MAX = Hex7fff
           THEN msgpack_pack_real_int16(h, d)
           ELSE IF SIZEOF_LONG_LONG = 4 \/ LLONG_MAX = Hex7fffffff
           THEN msgpack_pack_real_int32(h, d)
           ELSE msgpack_pack_real_int64(h, d)
      ELSE IF t.llong = 2
           THEN msgpack_pack_real_int16(h, d)
           ELSE IF t.llong = 4
           THEN msgpack_pack_real_int32(h, d)
           ELSE msgpack_pack_real_int64(h, d)

msgpack_pack_unsigned_short(h, t, m, d) ==
  LET SIZEOF_SHORT == SizeofMacro(m, t.short)
      USHRT_MAX == MaxMacro(m, UMax(t.short))
  IN  IF m # "none"
      THEN IF SIZEOF_SHORT = 2 \/ USHRT_MAX = Hexffff
           THEN msgpack_pack_real_uint16(h, d)
           ELSE IF SIZEOF_SHORT = 4 \/ USHRT_MAX = Hexffffffff
           THEN msgpack_pack_real_uint32(h, d)
           ELSE msgpack_pack_real_uint64(h, d)
      ELSE IF t.short = 2
           THEN msgpack_pack_real_uint16(h, d)
           ELSE IF t.short = 4
           THEN msgpack_pack_real_uint32(h, d)
           ELSE msgpack_pack_real_uint64(h, d)

msgpack_pack_unsigned_int(h, t, m, d) ==
  LET SIZEOF_INT == SizeofMacro(m, t.int)
      UINT_MAX == MaxMacro(m, UMax(t.int))
  IN  IF m # "none"
      THEN IF SIZEOF_INT = 2 \/ UINT_MAX = Hexffff
           THEN msgpack_pack_real_uint16(h, d)
           ELSE IF SIZEOF_INT = 4 \/ UINT_MAX = Hexffffffff
           THEN msgpack_pack_real_uint32(h, d)
           ELSE msgpack_pack_real_uint64(h, d)
      ELSE IF t.int = 2
           THEN msgpack_pack_real_uint16(h, d)
           ELSE IF t.int = 4
           THEN msgpack_pack_real_uint32(h, d)
           ELSE msgpack_pack_real_uint64(h, d)

\* The run-time branch asks for sizeof(unsigned int), as the source does.
msgpack_pack_unsigned_long(h, t, m, d) ==
  LET SIZEOF_LONG == SizeofMacro(m, t.long)
      ULONG_MAX == MaxMacro(m, UMax(t.long))
  IN  IF m # "none"
      THEN IF SIZEOF_LONG = 2 \/ ULONG_MAX = Hexffff
           THEN msgpack_pack_real_uint16(h, d)
           ELSE IF SIZEOF_LONG = 4 \/ ULONG_MAX = Hexffffffff
           THEN msgpack_pack_real_uint32(h, d)
           ELSE msgpack_pack_real_uint64(h, d)
      ELSE IF t.int = 2
           THEN msgpack_pack_real_uint16(h, d)
           ELSE IF t.int = 4
           THEN msgpack_pack_real_uint32(h, d)
           ELSE msgpack_pack_real_uint64(h, d)

msgpack_pack_unsigned_long_long(h, t, m, d) ==
  LET SIZEOF_LONG_LONG == SizeofMacro(m, t.llong)
      ULLONG_MAX == MaxMacro(m, UMax(t.llong))
  IN  IF m # "none"
      THEN IF SIZEOF_LONG_LONG = 2 \/ ULLONG_MAX = Hexffff
           THEN msgpack_pack_real_uint16(h, d)
           ELSE IF SIZEOF_LONG_LONG = 4 \/ ULLONG_MAX = Hexffffffff
           THEN msgpack_pack_real_uint32(h, d)
           ELSE msgpack_pack_real_uint64(h, d)
      ELSE IF t.llong = 2
           THEN msgpack_pack_real_uint16(h, d)
           ELSE IF t.llong = 4
           THEN msgpack_pack_real_uint32(h, d)
           ELSE msgpack_pack_real_uint64(h, d)

(***************************************************************************)
(* pack_template.h: float, nil, boolean, array, map, raw.  A float or      *)
(* double argument is its IEEE-754 bit pattern; the union hands the bytes  *)
(* the value has in memory to an integer of the same size.                 *)
(***************************************************************************)
msgpack_pack_float(h, d) ==
  LET fbuf == Mem(h, d)
      num == Mem(h, fbuf)
  IN  << <<202>> \o Store(h, _msgpack_be32(h, num), 4) >>

\* msgpack_pack_double without the byte-order conversion.
Faulty_double_no_swap(h, d) ==
  LET fbuf == Mem(h, d)
      num == Mem(h, fbuf)
  IN  << <<203>> \o Store(h, num, 8) >>

msgpack_pack_double(h, d) ==
  LET fbuf == Mem(h, d)
      num == Mem(h, fbuf)
  IN  << <<203>> \o Store(h, _msgpack_be64(h, num), 8) >>

msgpack_pack_nil == << <<192>> >>

msgpack_pack_true == << <<195>> >>

msgpack_pack_false == << <<194>> >>

msgpack_pack_array(h, n) ==
  IF ULt(n, Nat9(16))
  THEN LET d == Low(Or(Conv(<<144>>, FALSE, Len(n)), n), 1)
       IN  << d >>
  ELSE IF ULt(n, Nat9(65536))
  THEN << <<220>> \o Store(h, _msgpack_be16(h, n), 2) >>
  ELSE << <<221>> \o Store(h, _msgpack_be32(h, n), 4) >>

\* msgpack_pack_map with the short test written n <= 16.
Faulty_map_le(h, n) ==
  IF ULt(n, Nat9(17))
  THEN LET d == Low(Or(Conv(<<128>>, FALSE, Len(n)), n), 1)
       IN  << <<TAKE8_8(h, d)>> >>
  ELSE IF ULt(n, Nat9(65536))
  THEN << <<222>> \o Store(h, _msgpack_be16(h, n), 2) >>
  ELSE << <<223>> \o Store(h, _msgpack_be32(h, n), 4) >>

msgpack_pack_map(h, n) ==
  IF ULt(n, Nat9(16))
  THEN LET d == Low(Or(Conv(<<128>>, FALSE, Len(n)), n), 1)
       IN  << <<TAKE8_8(h, d)>> >>
  ELSE IF ULt(n, Nat9(65536))
  THEN << <<222>> \o Store(h, _msgpack_be16(h, n), 2) >>
  ELSE << <<223>> \o Store(h, _msgpack_be32(h, n), 4) >>

\* msgpack_pack_raw appending the tag and the length of the wide forms apart.
Faulty_raw_two_appends(h, l) ==
  IF ULt(l, Nat9(32))
  THEN LET d == Low(Or(Conv(<<160>>, FALSE, Len(l)), l), 1)
       IN  << <<TAKE8_8(h, d)>> >>
  ELSE IF ULt(l, Nat9(65536))
  THEN << <<218>>, Store(h, _msgpack_be16(h, l), 2) >>
  ELSE << <<219>>, Store(h, _msgpack_be32(h, l), 4) >>

msgpack_pack_raw(h, l) ==
  IF ULt(l, Nat9(32))
  THEN LET d == Low(Or(Conv(<<160>>, FALSE, Len(l)), l), 1)
       IN  << <<TAKE8_8(h, d)>> >>
  ELSE IF ULt(l, Nat9(65536))
  THEN << <<218>> \o Store(h, _msgpack_be16(h, l), 2) >>
  ELSE << <<219>> \o Store(h, _msgpack_be32(h, l), 4) >>

\* b is the body and l its length.
msgpack_pack_raw_body(b, l) == << SubSeq(b, 1, l) >>

(***************************************************************************)
(* The sink.  msgpack_pack_append_buffer is defined by the file that       *)
(* includes the template: it appends the bytes to the caller's sink or     *)
(* fails, and what it yields is what the encode call yields.               *)
(***************************************************************************)
msgpack_pack_append_buffer(s, buf, ok) ==
  [sink |-> IF ok THEN s \o buf ELSE s, ret |-> IF ok THEN "ok" ELSE "fail"]

\* The append calls of one encode call, in order, the failAt-th of them failing
\* (0: none fails); a failed append ends the encode call.
RECURSIVE RunAppends(_, _, _)
RunAppends(s, calls, failAt) ==
  IF calls = <<>> THEN [sink |-> s, ret |-> "ok"]
  ELSE LET r == msgpack_pack_append_buffer(s, Head(calls), failAt # 1)
       IN  IF r.ret = "fail" THEN r
           ELSE RunAppends(r.sink, Tail(calls), IF failAt = 0 THEN 0 ELSE failAt - 1)

(***************************************************************************)
(* The operations and the arguments drawn for them                         *)
(***************************************************************************)
FixedOps == {"uint8", "uint16", "uint32", "uint64", "int8", "int16", "int32", "int64"}

NativeOps ==
  {"short", "int", "long", "long_long",
   "unsigned_short", "unsigned_int", "unsigned_long", "unsigned_long_long"}

HeaderOps == {"array", "map", "raw"}

IntOps == FixedOps \cup NativeOps

\* The parameter type of an operation with an integer parameter: its size in
\* bytes on target t and its signedness.
ParamType(t, o) ==
  CASE o = "uint8" -> [w |-> 1, s |-> FALSE]
    [] o = "uint16" -> [w |-> 2, s |-> FALSE]
    [] o = "uint32" -> [w |-> 4, s |-> FALSE]
    [] o = "uint64" -> [w |-> 8, s |-> FALSE]
    [] o = "int8" -> [w |-> 1, s |-> TRUE]
    [] o = "int16" -> [w |-> 2, s |-> TRUE]
    [] o = "int32" -> [w |-> 4, s |-> TRUE]
    [] o = "int64" -> [w |-> 8, s |-> TRUE]
    [] o = "short" -> [w |-> t.short, s |-> TRUE]
    [] o = "int" -> [w |-> t.int, s |-> TRUE]
    [] o = "long" -> [w |-> t.long, s |-> TRUE]
    [] o = "long_long" -> [w |-> t.llong, s |-> TRUE]
    [] o = "unsigned_short" -> [w |-> t.short, s |-> FALSE]
    [] o = "unsigned_int" -> [w |-> t.int, s |-> FALSE]
    [] o = "unsigned_long" -> [w |-> t.long, s |-> FALSE]
    [] o = "unsigned_long_long" -> [w |-> t.llong, s |-> FALSE]
    [] o = "array" -> [w |-> t.int, s |-> FALSE]
    [] o = "map" -> [w |-> t.int, s |-> FALSE]
    [] o = "raw" -> [w |-> t.size, s |-> FALSE]

Exps == {4, 5, 7, 8, 15, 16, 31, 32, 63, 64}

Offsets == (0 - Radius)..Radius

\* Every threshold of the format, negated too, with its neighbours, and the
\* values the specification names.
Pool ==
  {Add(p, Int9(j)) :
     p \in {Shl1(k) : k \in Exps} \cup {Neg(Shl1(k)) : k \in Exps} \cup {Nat9(0)},
     j \in Offsets}
  \cup {Nat9(300), Int9(0 - 100), Nat9(258), Nat9(40), Nat9(3)}

\* The values of Pool a type of w bytes holds, as objects of that type.
Values(w, signed) == {Low(v, w) : v \in {u \in Pool : Val(Low(u, w), signed) = u}}

Floats ==
  { <<0, 0, 0, 0>>, <<128, 0, 0, 0>>, <<63, 128, 0, 0>>, <<127, 128, 0, 0>>,
    <<255, 128, 0, 0>>, <<127, 192, 0, 1>>, <<1, 2, 3, 4>> }

Doubles ==
  { <<0, 0, 0, 0, 0, 0, 0, 0>>, <<128, 0, 0, 0, 0, 0, 0, 0>>,
    <<63, 240, 0, 0, 0, 0, 0, 0>>, <<127, 240, 0, 0, 0, 0, 0, 0>>,
    <<255, 240, 0, 0, 0, 0, 0, 0>>, <<127, 248, 0, 0, 0, 0, 0, 1>>,
    <<1, 2, 3, 4, 5, 6, 7, 8>> }

BodyBytes == {5, 192}

Bodies == UNION {[1..n -> BodyBytes] : n \in 0..MaxBody}

Args(t, o) ==
  IF o \in IntOps \cup HeaderOps THEN Values(ParamType(t, o).w, ParamType(t, o).s)
  ELSE IF o = "float" THEN Floats
  ELSE IF o = "double" THEN Doubles
  ELSE IF o = "raw_body" THEN Bodies
  ELSE {<<>>}

Ops == IntOps \cup HeaderOps \cup {"float", "double", "nil", "true", "false", "raw_body"}

Calls(t) == UNION {{[op |-> o, arg |-> a] : a \in Args(t, o)} : o \in Ops}

NoCall == [op |-> "none", arg |-> <<>>]

NoLast ==
  [op |-> "none", arg |-> <<>>, attempts |-> <<>>, result |-> "none", before |-> <<>>]

(***************************************************************************)
(* The state machine.  todo is the encode call the caller has made and     *)
(* that has not run yet; sink is the caller's sink; hist is the calls that *)
(* succeeded, with the bytes each appended; last is the latest call: the   *)
(* appends it attempted, its result and the sink it found.                 *)
(***************************************************************************)
Init ==
  /\ host \in Hosts
  /\ target \in Targets
  /\ macros \in MacroModes
  /\ todo \in Calls(target)
  /\ sink = <<>>
  /\ hist = <<>>
  /\ last = NoLast

\* The operation todo names runs on todo.arg and makes the append calls `calls`.
Encode(calls) ==
  /\ \E failAt \in 0..Len(calls) :
       LET r == RunAppends(sink, calls, failAt)
       IN  /\ sink' = r.sink
           /\ last' = [op |-> todo.op, arg |-> todo.arg,
                       attempts |-> IF failAt = 0 THEN calls ELSE SubSeq(calls, 1, failAt),
                       result |-> r.ret, before |-> sink]
           /\ hist' = IF r.ret = "ok"
                      THEN Append(hist, [op |-> todo.op, arg |-> todo.arg,
                                         out |-> SubSeq(r.sink, Len(sink) + 1, Len(r.sink))])
                      ELSE hist
  /\ todo' = NoCall
  /\ UNCHANGED <<host, target, macros>>

pack_uint8 ==
  /\ todo.op = "uint8"
  /\ Encode(msgpack_pack_uint8(host, todo.arg))

pack_uint16 ==
  /\ todo.op = "uint16"
  /\ Encode(msgpack_pack_uint16(host, todo.arg))

pack_uint32 ==
  /\ todo.op = "uint32"
  /\ Encode(msgpack_pack_uint32(host, todo.arg))

pack_uint64 ==
  /\ todo.op = "uint64"
  /\ Encode(msgpack_pack_uint64(host, todo.arg))

pack_int8 ==
  /\ todo.op = "int8"
  /\ Encode(msgpack_pack_int8(host, todo.arg))

pack_int16 ==
  /\ todo.op = "int16"
  /\ Encode(msgpack_pack_int16(host, todo.arg))

pack_int32 ==
  /\ todo.op = "int32"
  /\ Encode(msgpack_pack_int32(host, todo.arg))

pack_int64 ==
  /\ todo.op = "int64"
  /\ Encode(msgpack_pack_int64(host, todo.arg))

pack_short ==
  /\ todo.op = "short"
  /\ Encode(msgpack_pack_short(host, target, macros, todo.arg))

pack_int ==
  /\ todo.op = "int"
  /\ Encode(msgpack_pack_int(host, target, macros, todo.arg))

pack_long ==
  /\ todo.op = "long"
  /\ Encode(msgpack_pack_long(host, target, macros, todo.arg))

pack_long_long ==
  /\ todo.op = "long_long"
  /\ Encode(msgpack_pack_long_long(host, target, macros, todo.arg))

pack_unsigned_short ==
  /\ todo.op = "unsigned_short"
  /\ Encode(msgpack_pack_unsigned_short(host, target, macros, todo.arg))

pack_unsigned_int ==
  /\ todo.op = "unsigned_int"
  /\ Encode(msgpack_pack_unsigned_int(host, target, macros, todo.arg))

pack_unsigned_long ==
  /\ todo.op = "unsigned_long"
  /\ Encode(msgpack_pack_unsigned_long(host, target, macros, todo.arg))

pack_unsigned_long_long ==
  /\ todo.op = "unsigned_long_long"
  /\ Encode(msgpack_pack_unsigned_long_long(host, target, macros, todo.arg))

pack_float ==
  /\ todo.op = "float"
  /\ Encode(msgpack_pack_float(host, todo.arg))

pack_double ==
  /\ todo.op = "double"
  /\ Encode(msgpack_pack_double(host, todo.arg))

pack_nil ==
  /\ todo.op = "nil"
  /\ Encode(msgpack_pack_nil)

pack_true ==
  /\ todo.op = "true"
  /\ Encode(msgpack_pack_true)

pack_false ==
  /\ todo.op = "false"
  /\ Encode(msgpack_pack_false)

pack_array ==
  /\ todo.op = "array"
  /\ Encode(msgpack_pack_array(host, todo.arg))

pack_map ==
  /\ todo.op = "map"
  /\ Encode(msgpack_pack_map(host, todo.arg))

pack_raw ==
  /\ todo.op = "raw"
  /\ Encode(msgpack_pack_raw(host, todo.arg))

pack_raw_body ==
  /\ todo.op = "raw_body"
  /\ Encode(msgpack_pack_raw_body(todo.arg, Len(todo.arg)))

Next ==
  \/ pack_uint8
  \/ pack_uint16
  \/ pack_uint32
  \/ pack_uint64
  \/ pack_int8
  \/ pack_int16
  \/ pack_int32
  \/ pack_int64
  \/ pack_short
  \/ pack_int
  \/ pack_long
  \/ pack_long_long
  \/ pack_unsigned_short
  \/ pack_unsigned_int
  \/ pack_unsigned_long
  \/ pack_unsigned_long_long
  \/ pack_float
  \/ pack_double
  \/ pack_nil
  \/ pack_true
  \/ pack_false
  \/ pack_array
  \/ pack_map
  \/ pack_raw
  \/ pack_raw_body

\* One encode call, on every argument drawn, on an empty sink.
Spec == Init /\ [][Next]_vars

(***************************************************************************)
(* The fixed-width family: one call of one of its operations, on every     *)
(* argument drawn for its type, on an empty sink.                          *)
(***************************************************************************)
FastOps ==
  {"fastint_uint8", "fastint_uint16", "fastint_uint32", "fastint_uint64",
   "fastint_int8", "fastint_int16", "fastint_int32", "fastint_int64"}

\* The minimal operation on the same parameter type.
FastBase(o) ==
  CASE o = "fastint_uint8" -> "uint8"
    [] o = "fastint_uint16" -> "uint16"
    [] o = "fastint_uint32" -> "uint32"
    [] o = "fastint_uint64" -> "uint64"
    [] o = "fastint_int8" -> "int8"
    [] o = "fastint_int16" -> "int16"
    [] o = "fastint_int32" -> "int32"
    [] o = "fastint_int64" -> "int64"

FastCalls(t) == UNION {{[op |-> o, arg |-> a] : a \in Args(t, FastBase(o))} : o \in FastOps}

InitFast ==
  /\ host \in Hosts
  /\ target \in Targets
  /\ macros \in MacroModes
  /\ todo \in FastCalls(target)
  /\ sink = <<>>
  /\ hist = <<>>
  /\ last = NoLast

pack_fastint_uint8 ==
  /\ todo.op = "fastint_uint8"
  /\ Encode(msgpack_pack_fastint_uint8(host, todo.arg))

pack_fastint_uint16 ==
  /\ todo.op = "fastint_uint16"
  /\ Encode(msgpack_pack_fastint_uint16(host, todo.arg))

pack_fastint_uint32 ==
  /\ todo.op = "fastint_uint32"
  /\ Encode(msgpack_pack_fastint_uint32(host, todo.arg))

pack_fastint_uint64 ==
  /\ todo.op = "fastint_uint64"
  /\ Encode(msgpack_pack_fastint_uint64(host, todo.arg))

pack_fastint_int8 ==
  /\ todo.op = "fastint_int8"
  /\ Encode(msgpack_pack_fastint_int8(host, todo.arg))

pack_fastint_int16 ==
  /\ todo.op = "fastint_int16"
  /\ Encode(msgpack_pack_fastint_int16(host, todo.arg))

pack_fastint_int32 ==
  /\ todo.op = "fastint_int32"
  /\ Encode(msgpack_pack_fastint_int32(host, todo.arg))

pack_fastint_int64 ==
  /\ todo.op = "fastint_int64"
  /\ Encode(msgpack_pack_fastint_int64(host, todo.arg))

NextFast ==
  \/ pack_fastint_uint8
  \/ pack_fastint_uint16
  \/ pack_fastint_uint32
  \/ pack_fastint_uint64
  \/ pack_fastint_int8
  \/ pack_fastint_int16
  \/ pack_fastint_int32
  \/ pack_fastint_int64

SpecFast == InitFast /\ [][NextFast]_vars

(***************************************************************************)
(* A stream: the caller makes up to MaxCalls successful encode calls, one  *)
(* after the other, on an initially empty sink.  A raw header is followed  *)
(* by the raw body of the length it announced (again, when its append      *)
(* failed).                                                                *)
(***************************************************************************)
StreamPool == {Int9(0 - 33), Shl1(32)}

\* -33 and 2^32 where the parameter type holds them, 5 where it holds neither.
StreamArgs(t, o) ==
  IF o \in IntOps
  THEN LET ty == ParamType(t, o)
           fit == {Low(v, ty.w) : v \in {u \in StreamPool : Val(Low(u, ty.w), ty.s) = u}}
       IN  IF fit = {} THEN {Low(Nat9(5), ty.w)} ELSE fit
  ELSE IF o = "array" THEN {Low(Nat9(16), ParamType(t, o).w)}
  ELSE IF o = "map" THEN {Low(Nat9(1), ParamType(t, o).w)}
  ELSE IF o = "raw" THEN {Low(Nat9(n), ParamType(t, o).w) : n \in 0..MaxBody}
  ELSE IF o = "float" THEN {<<1, 2, 3, 4>>}
  ELSE IF o = "double" THEN {<<1, 2, 3, 4, 5, 6, 7, 8>>}
  ELSE Args(t, o)

StreamCalls(t) == UNION {{[op |-> o, arg |-> a] : a \in StreamArgs(t, o)} : o \in Ops}

\* The number a small mathematical value stands for.
ToNat(v) == ((v[6] * 256 + v[7]) * 256 + v[8]) * 256 + v[9]

\* A raw header has been appended and its body has not.
Owes == hist # <<>> /\ hist[Len(hist)].op = "raw"

OwedLen == ToNat(Val(hist[Len(hist)].arg, FALSE))

InitStream ==
  /\ host \in Hosts
  /\ target \in Targets
  /\ macros \in MacroModes
  /\ todo = NoCall
  /\ sink = <<>>
  /\ hist = <<>>
  /\ last = NoLast

Request ==
  /\ todo = NoCall
  /\ Len(hist) < MaxCalls \/ Owes
  /\ \E c \in StreamCalls(target) :
       /\ IF Owes
          THEN c.op = "raw_body" /\ Len(c.arg) = OwedLen
          ELSE c.op # "raw_body"
       /\ todo' = c
  /\ last' = NoLast
  /\ UNCHANGED <<host, target, macros, sink, hist>>

NextStream == Request \/ Next

SpecStream == InitStream /\ [][NextStream]_vars

(***************************************************************************)
(* What an operation appends, by name                                      *)
(***************************************************************************)
PackFixed(h, o, d) ==
  CASE o = "uint8" -> msgpack_pack_uint8(h, d)
    [] o = "uint16" -> msgpack_pack_uint16(h, d)
    [] o = "uint32" -> msgpack_pack_uint32(h, d)
    [] o = "uint64" -> msgpack_pack_uint64(h, d)
    [] o = "int8" -> msgpack_pack_int8(h, d)
    [] o = "int16" -> msgpack_pack_int16(h, d)
    [] o = "int32" -> msgpack_pack_int32(h, d)
    [] o = "int64" -> msgpack_pack_int64(h, d)

PackOp(h, t, m, o, a) ==
  CASE o \in FixedOps -> PackFixed(h, o, a)
    [] o = "short" -> msgpack_pack_short(h, t, m, a)
    [] o = "int" -> msgpack_pack_int(h, t, m, a)
    [] o = "long" -> msgpack_pack_long(h, t, m, a)
    [] o = "long_long" -> msgpack_pack_long_long(h, t, m, a)
    [] o = "unsigned_short" -> msgpack_pack_unsigned_short(h, t, m, a)
    [] o = "unsigned_int" -> msgpack_pack_unsigned_int(h, t, m, a)
    [] o = "unsigned_long" -> msgpack_pack_unsigned_long(h, t, m, a)
    [] o = "unsigned_long_long" -> msgpack_pack_unsigned_long_long(h, t, m, a)
    [] o = "float" -> msgpack_pack_float(h, a)
    [] o = "double" -> msgpack_pack_double(h, a)
    [] o = "nil" -> msgpack_pack_nil
    [] o = "true" -> msgpack_pack_true
    [] o = "false" -> msgpack_pack_false
    [] o = "array" -> msgpack_pack_array(h, a)
    [] o = "map" -> msgpack_pack_map(h, a)
    [] o = "raw" -> msgpack_pack_raw(h, a)
    [] o = "raw_body" -> msgpack_pack_raw_body(a, Len(a))

(***************************************************************************)
(* The wire format the claims refer to, on mathematical values             *)
(***************************************************************************)
Ge(a, b) == ~Lt(a, b)

\* The unsigned table: fixnum, 0xcc, 0xcd, 0xce, 0xcf by ascending thresholds.
WireUnsigned(v) ==
  IF Lt(v, Shl1(7)) THEN Low(v, 1)
  ELSE IF Lt(v, Shl1(8)) THEN <<204>> \o Low(v, 1)
  ELSE IF Lt(v, Shl1(16)) THEN <<205>> \o Low(v, 2)
  ELSE IF Lt(v, Shl1(32)) THEN <<206>> \o Low(v, 4)
  ELSE <<207>> \o Low(v, 8)

\* The signed ranges: fixnum on -2^5 .. 2^7 - 1, 0xd0 .. 0xd3 below, and the
\* unsigned forms from 2^7 on.
WireSigned(v) ==
  IF Ge(v, Shl1(7)) THEN WireUnsigned(v)
  ELSE IF Ge(v, Neg(Shl1(5))) THEN Low(v, 1)
  ELSE IF Ge(v, Neg(Shl1(7))) THEN <<208>> \o Low(v, 1)
  ELSE IF Ge(v, Neg(Shl1(15))) THEN <<209>> \o Low(v, 2)
  ELSE IF Ge(v, Neg(Shl1(31))) THEN <<210>> \o Low(v, 4)
  ELSE <<211>> \o Low(v, 8)

\* The short tag base, the short limit, the 16-bit tag and the 32-bit tag of a header.
HeaderTags(o) ==
  CASE o = "array" -> [base |-> 144, short |-> 16, t16 |-> 220, t32 |-> 221]
    [] o = "map" -> [base |-> 128, short |-> 16, t16 |-> 222, t32 |-> 223]
    [] o = "raw" -> [base |-> 160, short |-> 32, t16 |-> 218, t32 |-> 219]

WireHeader(o, v) ==
  LET k == HeaderTags(o)
  IN  IF Lt(v, Nat9(k.short)) THEN <<k.base + Low(v, 1)[1]>>
      ELSE IF Lt(v, Shl1(16)) THEN <<k.t16>> \o Low(v, 2)
      ELSE <<k.t32>> \o Low(v, 4)

\* The number of payload bytes the tag announces.
PayloadLen(tag) ==
  IF tag \in {204, 208} THEN 1
  ELSE IF tag \in {205, 209, 218, 220, 222} THEN 2
  ELSE IF tag \in {202, 206, 210, 219, 221, 223} THEN 4
  ELSE IF tag \in {203, 207, 211} THEN 8
  ELSE 0

\* A conformant decoder's reading of the first scalar or header of b: its kind,
\* its value (an integer or a count as a mathematical value, a float as its
\* bit pattern) and the number of bytes it takes.
Decode(b) ==
  IF b = <<>> \/ Len(b) < 1 + PayloadLen(b[1])
  THEN [kind |-> "truncated", val |-> <<>>, used |-> 0]
  ELSE LET tag == b[1]
           p == SubSeq(b, 2, 1 + PayloadLen(tag))
           used == 1 + PayloadLen(tag)
       IN  IF tag < 128 THEN [kind |-> "int", val |-> Nat9(tag), used |-> used]
           ELSE IF tag < 144 THEN [kind |-> "map", val |-> Nat9(tag - 128), used |-> used]
           ELSE IF tag < 160 THEN [kind |-> "array", val |-> Nat9(tag - 144), used |-> used]
           ELSE IF tag < 192 THEN [kind |-> "raw", val |-> Nat9(tag - 160), used |-> used]
           ELSE IF tag = 192 THEN [kind |-> "nil", val |-> <<>>, used |-> used]
           ELSE IF tag = 194 THEN [kind |-> "false", val |-> <<>>, used |-> used]
           ELSE IF tag = 195 THEN [kind |-> "true", val |-> <<>>, used |-> used]
           ELSE IF tag = 202 THEN [kind |-> "float", val |-> p, used |-> used]
           ELSE IF tag = 203 THEN [kind |-> "double", val |-> p, used |-> used]
           ELSE IF tag \in 204..207 THEN [kind |-> "int", val |-> Val(p, FALSE), used |-> used]
           ELSE IF tag \in 208..211 THEN [kind |-> "int", val |-> Val(p, TRUE), used |-> used]
           ELSE IF tag \in {218, 219} THEN [kind |-> "raw", val |-> Val(p, FALSE), used |-> used]
           ELSE IF tag \in {220, 221} THEN [kind |-> "array", val |-> Val(p, FALSE), used |-> used]
           ELSE IF tag \in {222, 223} THEN [kind |-> "map", val |-> Val(p, FALSE), used |-> used]
           ELSE IF tag >= 224 THEN [kind |-> "int", val |-> Val(<<tag>>, TRUE), used |-> used]
           ELSE [kind |-> "reserved", val |-> <<>>, used |-> 0]

\* The mathematical value of the latest call's integer argument.
LastVal == Val(last.arg, ParamType(target, last.op).s)

Done(ops) == last.op \in ops /\ last.result = "ok"

(***************************************************************************)
(* C1.  Every unsigned value passed to the uint8, uint16, uint32 or uint64 *)
(* operation is appended as the unsigned table says: the byte v below 2^7, *)
(* 0xcc and 1 byte below 2^8, 0xcd and 2 big-endian bytes below 2^16, 0xce *)
(* and 4 below 2^32, 0xcf and 8 from 2^32 on.                              *)
(***************************************************************************)
C1_UnsignedTable ==
  Done({"uint8", "uint16", "uint32", "uint64"})
    => sink = last.before \o WireUnsigned(LastVal)

\* uint16 300 has been appended as 0xcd 0x01 0x2c.
C1_Witness ==
  /\ Done({"uint16"})
  /\ last.arg = <<1, 44>>
  /\ sink = <<205, 1, 44>>

(***************************************************************************)
(* C2.  Every signed value passed to the int8, int16, int32 or int64       *)
(* operation is appended in the narrowest form whose range holds it: a     *)
(* fixnum on -2^5 .. 2^7 - 1, 0xd0 down to -2^7, 0xd1 down to -2^15, 0xd2  *)
(* down to -2^31, 0xd3 below; each boundary value goes to its own range.   *)
(***************************************************************************)
C2_SignedNarrowest ==
  Done({"int8", "int16", "int32", "int64"})
    => sink = last.before \o WireSigned(LastVal)

\* int8 -100 has been appended as 0xd0 0x9c.
C2_Witness ==
  /\ Done({"int8"})
  /\ last.arg = <<156>>
  /\ sink = <<208, 156>>

(***************************************************************************)
(* C3.  For a count or length n below 2^32 the array, map and raw header   *)
(* operations append the short tag with n in it (n < 16, raw: n < 32), or  *)
(* the 16-bit tag and n in 2 big-endian bytes (n < 65536), or the 32-bit   *)
(* tag and n in 4; the length field reads n, and nothing else is appended. *)
(***************************************************************************)
C3_HeaderTiers ==
  (Done(HeaderOps) /\ Lt(LastVal, Shl1(32)))
    => /\ sink = last.before \o WireHeader(last.op, LastVal)
       /\ Decode(last.attempts[1]) =
            [kind |-> last.op, val |-> LastVal, used |-> Len(sink) - Len(last.before)]

\* raw 40 has been appended as 0xda 0x00 0x28.
C3_Witness ==
  /\ Done({"raw"})
  /\ LastVal = Nat9(40)
  /\ sink = <<218, 0, 40>>

(***************************************************************************)
(* C4.  A count or length above 2^32 - 1 is rejected before any byte is    *)
(* appended: no append is attempted and the sink is left as it was, so no  *)
(* header with a truncated length field is emitted.                        *)
(***************************************************************************)
C4_OversizeRejected ==
  (last.op \in HeaderOps /\ Ge(LastVal, Shl1(32)))
    => /\ last.attempts = <<>>
       /\ sink = last.before

(***************************************************************************)
(* C5.  Every encode call makes exactly one append, which carries the      *)
(* whole value (the tag and the payload the tag announces; for a raw body, *)
(* the body); when the append fails the sink holds none of the bytes and   *)
(* the call yields the failure, when it succeeds the sink holds them all.  *)
(***************************************************************************)
C5_OneAppend ==
  last.op # "none"
    => /\ Len(last.attempts) = 1
       /\ IF last.op = "raw_body"
          THEN last.attempts[1] = last.arg
          ELSE Decode(last.attempts[1]).used = Len(last.attempts[1])
       /\ last.result \in {"ok", "fail"}
       /\ last.result = "fail" => sink = last.before
       /\ last.result = "ok" => sink = last.before \o last.attempts[1]

\* The append of the nine bytes of an int64 has failed and the sink is empty.
C5_Witness ==
  /\ last.op = "int64"
  /\ last.result = "fail"
  /\ Len(last.attempts) = 1
  /\ Len(last.attempts[1]) = 9
  /\ sink = <<>>

(***************************************************************************)
(* C6.  Whatever the operation and the argument, the bytes handed to the   *)
(* sink on a little-endian host are the bytes handed to it on a big-endian *)
(* host.                                                                   *)
(***************************************************************************)
C6_HostIndependent ==
  last.op # "none"
    => /\ last.attempts = PackOp("little", target, macros, last.op, last.arg)
       /\ last.attempts = PackOp("big", target, macros, last.op, last.arg)

(***************************************************************************)
(* C7.  Round trip of the scalars: a conformant decoder reads the bytes of *)
(* nil, true, false, of an integer packed by a fixed-width operation and   *)
(* of a float or double back as the same kind and value (the same bit      *)
(* pattern at the same width for a float), and takes exactly those bytes.  *)
(***************************************************************************)
C7_RoundTrip ==
  Done(FixedOps \cup {"float", "double", "nil", "true", "false"})
    => Decode(sink) =
         [kind |-> IF last.op \in FixedOps THEN "int" ELSE last.op,
          val |-> IF last.op \in FixedOps THEN LastVal ELSE last.arg,
          used |-> Len(sink)]

\* A double NaN with a payload bit has been appended as 0xcb and its 8 bytes.
C7_Witness ==
  /\ Done({"double"})
  /\ last.arg = <<127, 248, 0, 0, 0, 0, 0, 1>>
  /\ sink = <<203, 127, 248, 0, 0, 0, 0, 0, 1>>

(***************************************************************************)
(* C8.  After any sequence of encode calls on an initially empty sink,     *)
(* every raw header followed by its body, the sink is the bytes of the     *)
(* calls in call order, the first byte of each scalar or header lies in    *)
(* the tag range of its kind, and reading the sink from left to right      *)
(* yields exactly the kinds and the values, counts and bodies encoded.     *)
(***************************************************************************)
RECURSIVE Concat(_)
Concat(ss) == IF ss = <<>> THEN <<>> ELSE Head(ss) \o Concat(Tail(ss))

\* What the caller encoded: one item per scalar or header, a raw header taking
\* the body that follows it.
RECURSIVE Items(_)
Items(h) ==
  IF h = <<>> THEN <<>>
  ELSE LET c == Head(h)
       IN  IF c.op = "raw"
           THEN <<[kind |-> "raw", val |-> Val(c.arg, FALSE), body |-> h[2].arg]>>
                  \o Items(Tail(Tail(h)))
           ELSE <<[kind |-> IF c.op \in IntOps THEN "int" ELSE c.op,
                   val |-> IF c.op \in IntOps \cup HeaderOps
                           THEN Val(c.arg, ParamType(target, c.op).s)
                           ELSE c.arg,
                   body |-> <<>>]>>
                  \o Items(Tail(h))

\* What a conformant decoder reads from b, from left to right.
RECURSIVE ParseAll(_)
ParseAll(b) ==
  IF b = <<>> THEN <<>>
  ELSE LET r == Decode(b)
           n == IF r.kind = "raw" THEN ToNat(r.val) ELSE 0
       IN  IF r.used = 0 \/ Len(b) < r.used + n
           THEN <<[kind |-> "error", val |-> <<>>, body |-> <<>>]>>
           ELSE <<[kind |-> r.kind, val |-> r.val,
                   body |-> SubSeq(b, r.used + 1, r.used + n)]>>
                  \o ParseAll(SubSeq(b, r.used + n + 1, Len(b)))

\* The tag ranges of the kinds.
TagsOf(kind) ==
  CASE kind = "int" -> (0..127) \cup (224..255) \cup (204..211)
    [] kind = "nil" -> {192}
    [] kind = "false" -> {194}
    [] kind = "true" -> {195}
    [] kind = "float" -> {202}
    [] kind = "double" -> {203}
    [] kind = "array" -> (144..159) \cup {220, 221}
    [] kind = "map" -> (128..143) \cup {222, 223}
    [] kind = "raw" -> (160..191) \cup {218, 219}

Kinds == {"int", "nil", "false", "true", "float", "double", "array", "map", "raw"}

C8_StreamDecodable ==
  /\ sink = Concat([i \in 1..Len(hist) |-> hist[i].out])
  /\ \A k1, k2 \in Kinds : k1 # k2 => TagsOf(k1) \cap TagsOf(k2) = {}
  /\ \A i \in 1..Len(hist) :
       hist[i].op # "raw_body"
         => hist[i].out[1] \in TagsOf(IF hist[i].op \in IntOps THEN "int" ELSE hist[i].op)
  /\ ~Owes => ParseAll(sink) = Items(hist)

(***************************************************************************)
(* C9.  A native-type operation appends what the fixed-width operation of  *)
(* the category's real width on the target appends, whether the width      *)
(* macros are defined or not; the value is never truncated.                *)
(***************************************************************************)
FixedOfWidth(w, signed) ==
  CASE w = 2 /\ signed -> "int16"
    [] w = 4 /\ signed -> "int32"
    [] w = 8 /\ signed -> "int64"
    [] w = 2 /\ ~signed -> "uint16"
    [] w = 4 /\ ~signed -> "uint32"
    [] w = 8 /\ ~signed -> "uint64"

C9_NativeDispatch ==
  last.op \in NativeOps
    => LET ty == ParamType(target, last.op)
       IN  /\ last.attempts = PackFixed(host, FixedOfWidth(ty.w, ty.s), last.arg)
           /\ last.result = "ok" => Decode(sink).val = LastVal

(***************************************************************************)
(* C10.  The bytes of an integer depend on its value alone: every          *)
(* fixed-width operation whose type holds the value appends the same       *)
(* bytes; a value that is not negative never gets a signed tag 0xd0-0xd3,  *)
(* and a small value gets the fixnum or the 8-bit form at every width.     *)
(***************************************************************************)
Holds(o, v) == Val(Low(v, ParamType(target, o).w), ParamType(target, o).s) = v

C10_ValueAlone ==
  last.op \in FixedOps
    => /\ \A o \in FixedOps :
            Holds(o, LastVal)
              => PackFixed(host, o, Low(LastVal, ParamType(target, o).w)) = last.attempts
       /\ Ge(LastVal, Nat9(0)) => last.attempts[1][1] \notin 208..211
       /\ (Ge(LastVal, Nat9(0)) /\ Lt(LastVal, Shl1(7))) => Len(last.attempts[1]) = 1
       /\ (Ge(LastVal, Shl1(7)) /\ Lt(LastVal, Shl1(8))) => last.attempts[1][1] = 204

\* int64 255 has been appended as 0xcc 0xff, as uint8 255 is.
C10_Witness ==
  /\ Done({"int64"})
  /\ LastVal = Nat9(255)
  /\ sink = <<204, 255>>
  /\ msgpack_pack_uint8(host, <<255>>) = last.attempts

(***************************************************************************)
(* C11.  An operation of the fixed-width family on a type of w bits        *)
(* appends, whatever the value v, exactly 1 + w/8 bytes: the tag of that   *)
(* width and signedness (0xcc .. 0xcf unsigned, 0xd0 .. 0xd3 signed) and v *)
(* in w/8 big-endian two's-complement bytes; the bytes decode to v, and    *)
(* they differ from the minimal operation's bytes whenever v fits a        *)
(* narrower form.                                                          *)
(***************************************************************************)
FastTag(w, signed) ==
  (IF signed THEN 208 ELSE 204)
    + (CASE w = 1 -> 0 [] w = 2 -> 1 [] w = 4 -> 2 [] w = 8 -> 3)

C11_FastintFixedWidth ==
  last.op \in FastOps
    => LET ty == ParamType(target, FastBase(last.op))
           v == Val(last.arg, ty.s)
           out == last.attempts[1]
           narrowest == IF ty.s THEN WireSigned(v) ELSE WireUnsigned(v)
           minimal == PackFixed(host, FastBase(last.op), last.arg)
       IN  /\ Len(last.attempts) = 1
           /\ Len(out) = 1 + ty.w
           /\ out = <<FastTag(ty.w, ty.s)>> \o last.arg
           /\ Decode(out) = [kind |-> "int", val |-> v, used |-> Len(out)]
           /\ Len(narrowest) < 1 + ty.w => out # minimal[1]
           /\ Decode(minimal[1]).val = v
           /\ last.result = "ok" => sink = out

\* The fixed-width int32 operation has appended 3 as 0xd2 0x00 0x00 0x00 0x03,
\* where the minimal int32 operation appends the single byte 0x03.
C11_Witness ==
  /\ last.op = "fastint_int32"
  /\ last.result = "ok"
  /\ last.arg = <<0, 0, 0, 3>>
  /\ sink = <<210, 0, 0, 0, 3>>
  /\ msgpack_pack_int32(host, last.arg) = << <<3>> >>

====
